---- MODULE Spec2Model ----
(***************************************************************************)
(* Tool interaction state machine of the whiteboard: the state machine     *)
(* engine (createMachine), the tool factory (createTool), the rectangle    *)
(* and select tool configurations and the functional tool manager          *)
(* (createToolManager), together with the store and cursor they act on.    *)
(***************************************************************************)
EXTENDS Integers, Sequences, FiniteSets, TLC

VARIABLES
  inst,              \* the tool instances created so far, in creation order
  shapes,            \* store: shape id -> shape record
  selectedShapeIds,  \* store: the selection
  currentTool,       \* store: the tool id the manager published
  cursor,            \* style.cursor of the canvas element
  tools,             \* manager: tool id -> index of the registered instance
  activeToolId,      \* manager: option of a tool id
  activeTool,        \* manager: option of an instance index
  now,               \* the clock read by Date.now()
  fresh,             \* history: instances activated from idle with no POINTER_DOWN since
  gesture,           \* history: per instance, the POINTER_DOWN that opened its gesture
  handles,           \* history: per instance, the unsubscribe function of each listener
  hybrid,            \* the ToolManagerHybrid run beside the manager, if there is one
  log                \* the effects of the last call, in order

vars == <<inst, shapes, selectedShapeIds, currentTool, cursor, tools,
          activeToolId, activeTool, now, fresh, gesture, handles, hybrid, log>>

----------------------------------------------------------------------------
\* Bounds of the model

MaxTools == 3
MaxClock == 1
MaxListeners == 2
MaxCoord == 2

\* null and non-null values of a nullable field
Null == <<>>
Some(v) == <<v>>
IsNull(o) == o = <<>>
Val(o) == o[1]

Pt(x, y) == [x |-> x, y |-> y]
Points == {Pt(0, 0), Pt(3, 4), Pt(7, 2)}
Keys == {"Escape", "a"}
ToolIds == {"select", "rectangle"}
RequestedIds == ToolIds \cup {"ellipse"}
ListenerIds == {1, 2}

Min(a, b) == IF a < b THEN a ELSE b
Abs(a) == IF a < 0 THEN -a ELSE a

EventTypes ==
  {"ACTIVATE", "DEACTIVATE", "POINTER_DOWN", "POINTER_MOVE", "POINTER_UP",
   "KEY_DOWN", "KEY_UP", "COMPLETE", "CANCEL"}

\* An event: its type and the payload the tools read. target tells whether
\* the raw event has a target element; hit is the shape id that target
\* resolves to (closest [data-shape] element), if any.
Event(type, point, key, hit, shiftKey) ==
  [type |-> type, point |-> point, key |-> key, hit |-> hit, shiftKey |-> shiftKey,
   target |-> TRUE]
PlainEvent(type) == Event(type, Null, "", Null, FALSE)
PointerEvent(type, p, hit, shiftKey) == Event(type, Some(p), "", hit, shiftKey)
KeyEvent(type, key) == Event(type, Null, key, Null, FALSE)
\* a pointer event whose raw event has no target element
UntargetedPointerEvent(type, p, shiftKey) ==
  [PointerEvent(type, p, Null, shiftKey) EXCEPT !.target = FALSE]

\* One effect in the log: k is its kind, s a state, cursor, event type or
\* tool id, id a shape id (if any), arg the numbers passed. A send records
\* the event type and the state the machine is in; a call of a cond or an
\* action records the event it is passed.
Effect(k, s, id, arg) ==
  [k |-> k, s |-> s, id |-> id, arg |-> arg, ev |-> Null, from |-> ""]
SendEffect(i, ev, from) ==
  [k |-> "send", s |-> ev.type, id |-> Null, arg |-> <<i>>, ev |-> Null, from |-> from]
CallbackEffect(k, i, ev, from) ==
  [k |-> k, s |-> ev.type, id |-> Null, arg |-> <<i>>, ev |-> Some(ev), from |-> from]
Logged(w, e) == [w EXCEPT !.log = Append(@, e)]
\* an error raised by a callback, and whether the call has raised one
Throw(w, i) == Logged(w, Effect("throw", "TypeError", Null, <<i>>))
Thrown(w) == \E k \in 1..Len(w.log) : w.log[k].k = "throw"

RectId(t) == <<"rect", t>>
ShapeK(n) == <<"shape", n>>

----------------------------------------------------------------------------
\* The store (external collaborator): addShape, updateShape, removeShape,
\* selectShape, clearSelection, each recorded in the log.

addShape(w, id, x, y) ==
  LET s == [x |-> x, y |-> y, width |-> 0, height |-> 0]
      sh == [k \in DOMAIN w.shapes \cup {id} |-> IF k = id THEN s ELSE w.shapes[k]]
  IN Logged([w EXCEPT !.shapes = sh], Effect("addShape", "", Some(id), <<x, y, 0, 0>>))

updateShapeBounds(w, id, b) ==
  LET sh == IF id \in DOMAIN w.shapes
            THEN [w.shapes EXCEPT ![id] =
                    [x |-> b.x, y |-> b.y, width |-> b.width, height |-> b.height]]
            ELSE w.shapes
  IN Logged([w EXCEPT !.shapes = sh],
            Effect("updateShape", "", Some(id), <<b.x, b.y, b.width, b.height>>))

updateShapePosition(w, id, x, y) ==
  LET sh == IF id \in DOMAIN w.shapes
            THEN [w.shapes EXCEPT ![id] = [@ EXCEPT !.x = x, !.y = y]]
            ELSE w.shapes
  IN Logged([w EXCEPT !.shapes = sh], Effect("updateShape", "", Some(id), <<x, y>>))

removeShape(w, id) ==
  LET sh == [k \in DOMAIN w.shapes \ {id} |-> w.shapes[k]]
  IN Logged([w EXCEPT !.shapes = sh], Effect("removeShape", "", Some(id), <<>>))

selectShape(w, id) ==
  Logged([w EXCEPT !.selectedShapeIds = @ \cup {id}],
         Effect("selectShape", "", Some(id), <<>>))

clearSelection(w) ==
  Logged([w EXCEPT !.selectedShapeIds = {}], Effect("clearSelection", "", Null, <<>>))

\* setCursor: the canvas element exists, so the style is always written
setCursor(w, c) ==
  Logged([w EXCEPT !.cursor = c], Effect("cursor", c, Null, <<>>))

\* variant of getRectBounds: width and height keep the sign of end - start
getRectBoundsSigned(start, end) ==
  [x |-> Min(start.x, end.x), y |-> Min(start.y, end.y),
   width |-> end.x - start.x, height |-> end.y - start.y]
\* getRectBounds
getRectBounds(start, end) ==
  [x |-> Min(start.x, end.x), y |-> Min(start.y, end.y),
   width |-> Abs(end.x - start.x), height |-> Abs(end.y - start.y)]

----------------------------------------------------------------------------
\* Machine configurations. A transition is absent, a bare target state, or
\* a record with a target and optionally a cond and an action.

NoTransition ==
  [defined |-> FALSE, bare |-> FALSE, target |-> "", cond |-> FALSE, action |-> FALSE]
Bare(target) ==
  [defined |-> TRUE, bare |-> TRUE, target |-> target, cond |-> FALSE, action |-> FALSE]
Rec(target, cond, action) ==
  [defined |-> TRUE, bare |-> FALSE, target |-> target, cond |-> cond, action |-> action]

RectangleContext == [startPoint |-> Null, currentShapeId |-> Null]
SelectContext == [draggedShapeId |-> Null, dragStart |-> Null, shapeStartPosition |-> Null]

\* variant of RectangleOn: `drawing` also has DEACTIVATE: "idle"
RectangleOnWithDrawingDeactivate(state, type) ==
  CASE state = "idle" /\ type = "ACTIVATE" -> Bare("active")
    [] state = "active" /\ type = "DEACTIVATE" -> Bare("idle")
    [] state = "active" /\ type = "POINTER_DOWN" -> Rec("drawing", FALSE, TRUE)
    [] state = "drawing" /\ type = "DEACTIVATE" -> Bare("idle")
    [] state = "drawing" /\ type = "POINTER_MOVE" -> Rec("drawing", FALSE, TRUE)
    [] state = "drawing" /\ type = "POINTER_UP" -> Rec("active", FALSE, TRUE)
    [] state = "drawing" /\ type = "KEY_DOWN" -> Rec("active", TRUE, TRUE)
    [] OTHER -> NoTransition

\* createRectangleMachine: the `on` tables
RectangleOn(state, type) ==
  CASE state = "idle" /\ type = "ACTIVATE" -> Bare("active")
    [] state = "active" /\ type = "DEACTIVATE" -> Bare("idle")
    [] state = "active" /\ type = "POINTER_DOWN" -> Rec("drawing", FALSE, TRUE)
    [] state = "drawing" /\ type = "POINTER_MOVE" -> Rec("drawing", FALSE, TRUE)
    [] state = "drawing" /\ type = "POINTER_UP" -> Rec("active", FALSE, TRUE)
    [] state = "drawing" /\ type = "KEY_DOWN" -> Rec("active", TRUE, TRUE)
    [] OTHER -> NoTransition

\* variant of SelectOn: a POINTER_DOWN wakes the idle tool
SelectOnIdleClick(state, type) ==
  CASE state = "idle" /\ type \in {"ACTIVATE", "POINTER_DOWN"} -> Bare("active")
    [] state = "active" /\ type = "DEACTIVATE" -> Bare("idle")
    [] state = "active" /\ type = "POINTER_DOWN" -> Rec("active", FALSE, TRUE)
    [] state = "active" /\ type = "POINTER_MOVE" -> Rec("dragging", TRUE, FALSE)
    [] state = "dragging" /\ type = "POINTER_MOVE" -> Rec("dragging", FALSE, TRUE)
    [] state = "dragging" /\ type = "POINTER_UP" -> Rec("active", FALSE, TRUE)
    [] OTHER -> NoTransition

\* createSelectMachine: the `on` tables
SelectOn(state, type) ==
  CASE state = "idle" /\ type = "ACTIVATE" -> Bare("active")
    [] state = "active" /\ type = "DEACTIVATE" -> Bare("idle")
    [] state = "active" /\ type = "POINTER_DOWN" -> Rec("active", FALSE, TRUE)
    [] state = "active" /\ type = "POINTER_MOVE" -> Rec("dragging", TRUE, FALSE)
    [] state = "dragging" /\ type = "POINTER_MOVE" -> Rec("dragging", FALSE, TRUE)
    [] state = "dragging" /\ type = "POINTER_UP" -> Rec("active", FALSE, TRUE)
    [] OTHER -> NoTransition

\* the machine of the helper tests' tool: eight states without transitions
MockOn(state, type) == NoTransition

On(id, state, type) ==
  CASE id = "rectangle" -> RectangleOn(state, type)
    [] id = "select" -> SelectOn(state, type)
    [] OTHER -> MockOn(state, type)

\* the cond of a record transition
RectangleCond(ctx, state, ev) == ev.key = "Escape"
SelectCond(ctx, state, ev) == ~IsNull(ctx.draggedShapeId) /\ ~IsNull(ctx.dragStart)
Cond(id, ctx, state, ev) ==
  IF id = "rectangle" THEN RectangleCond(ctx, state, ev) ELSE SelectCond(ctx, state, ev)

SetContext(w, i, ctx) == [w EXCEPT !.inst[i].context = ctx]

\* variant of RectanglePointerDown: the context is set, no shape is added
RectanglePointerDownWithoutShape(w, i, ev) ==
  SetContext(w, i, [startPoint |-> ev.point, currentShapeId |-> Some(RectId(w.now))])

\* rectangle, active.on.POINTER_DOWN.action
RectanglePointerDown(w, i, ev) ==
  LET point == Val(ev.point)
      id == RectId(w.now)
      w1 == SetContext(w, i, [startPoint |-> Some(point), currentShapeId |-> Some(id)])
  IN addShape(w1, id, point.x, point.y)

\* rectangle, drawing.on.POINTER_MOVE.action
RectanglePointerMove(w, i, ev) ==
  LET ctx == w.inst[i].context
  IN IF IsNull(ctx.startPoint) \/ IsNull(ctx.currentShapeId)
     THEN w
     ELSE updateShapeBounds(w, Val(ctx.currentShapeId),
                            getRectBounds(Val(ctx.startPoint), Val(ev.point)))

\* rectangle, drawing.on.POINTER_UP.action
RectanglePointerUp(w, i, ev) ==
  LET ctx == w.inst[i].context
      id == Val(ctx.currentShapeId)
      w1 == IF ~IsNull(ctx.currentShapeId)
               /\ id \in DOMAIN w.shapes
               /\ w.shapes[id].width < 5 /\ w.shapes[id].height < 5
            THEN removeShape(w, id)
            ELSE w
  IN SetContext(w1, i, RectangleContext)

\* rectangle, drawing.on.KEY_DOWN.action
RectangleKeyDown(w, i, ev) ==
  LET ctx == w.inst[i].context
      w1 == IF ~IsNull(ctx.currentShapeId) THEN removeShape(w, Val(ctx.currentShapeId)) ELSE w
  IN SetContext(w1, i, RectangleContext)

RectangleAction(w, i, state, ev) ==
  CASE state = "active" /\ ev.type = "POINTER_DOWN" -> RectanglePointerDown(w, i, ev)
    [] state = "drawing" /\ ev.type = "POINTER_MOVE" -> RectanglePointerMove(w, i, ev)
    [] state = "drawing" /\ ev.type = "POINTER_UP" -> RectanglePointerUp(w, i, ev)
    [] state = "drawing" /\ ev.type = "KEY_DOWN" -> RectangleKeyDown(w, i, ev)
    [] OTHER -> w

\* the drag context a hit on shapeId prepares
DragContext(w, shapeId, ev) ==
  [draggedShapeId |-> Some(shapeId),
   dragStart |-> ev.point,
   shapeStartPosition |-> Some(Pt(w.shapes[shapeId].x, w.shapes[shapeId].y))]

\* variant of SelectPointerDown: the hit shape is selected before the
\* selection is cleared
SelectPointerDownSelectFirst(w, i, ev) ==
  IF ~ev.target THEN Throw(w, i)
  ELSE IF ~IsNull(ev.hit)
  THEN LET shapeId == Val(ev.hit)
           w1 == IF shapeId \notin w.selectedShapeIds THEN selectShape(w, shapeId) ELSE w
           w2 == IF ~ev.shiftKey /\ shapeId \notin w.selectedShapeIds
                 THEN clearSelection(w1) ELSE w1
       IN IF shapeId \in DOMAIN w2.shapes
          THEN SetContext(w2, i, DragContext(w2, shapeId, ev))
          ELSE w2
  ELSE IF ~ev.shiftKey THEN clearSelection(w) ELSE w

\* variant of SelectPointerDown: a click on empty space clears the selection
\* whatever the modifier
SelectPointerDownAlwaysClears(w, i, ev) ==
  IF ~ev.target THEN Throw(w, i)
  ELSE IF ~IsNull(ev.hit)
  THEN LET shapeId == Val(ev.hit)
           w1 == IF ~ev.shiftKey /\ shapeId \notin w.selectedShapeIds
                 THEN clearSelection(w) ELSE w
           w2 == IF shapeId \notin w1.selectedShapeIds THEN selectShape(w1, shapeId) ELSE w1
       IN IF shapeId \in DOMAIN w2.shapes
          THEN SetContext(w2, i, DragContext(w2, shapeId, ev))
          ELSE w2
  ELSE clearSelection(w)

\* select, active.on.POINTER_DOWN.action; target.closest(...) raises a
\* TypeError when the raw event has no target
SelectPointerDown(w, i, ev) ==
  IF ~ev.target THEN Throw(w, i)
  ELSE IF ~IsNull(ev.hit)
  THEN LET shapeId == Val(ev.hit)
           w1 == IF ~ev.shiftKey /\ shapeId \notin w.selectedShapeIds
                 THEN clearSelection(w) ELSE w
           w2 == IF shapeId \notin w1.selectedShapeIds THEN selectShape(w1, shapeId) ELSE w1
       IN IF shapeId \in DOMAIN w2.shapes
          THEN SetContext(w2, i, DragContext(w2, shapeId, ev))
          ELSE w2
  ELSE IF ~ev.shiftKey THEN clearSelection(w) ELSE w

\* select, dragging.on.POINTER_MOVE.action
SelectDragMove(w, i, ev) ==
  LET ctx == w.inst[i].context
  IN IF IsNull(ctx.draggedShapeId) \/ IsNull(ctx.dragStart) \/ IsNull(ctx.shapeStartPosition)
     THEN w
     ELSE LET deltaX == Val(ev.point).x - Val(ctx.dragStart).x
              deltaY == Val(ev.point).y - Val(ctx.dragStart).y
          IN updateShapePosition(w, Val(ctx.draggedShapeId),
                                 Val(ctx.shapeStartPosition).x + deltaX,
                                 Val(ctx.shapeStartPosition).y + deltaY)

\* select, dragging.on.POINTER_UP.action
SelectDragUp(w, i, ev) == SetContext(w, i, SelectContext)

SelectAction(w, i, state, ev) ==
  CASE state = "active" /\ ev.type = "POINTER_DOWN" -> SelectPointerDown(w, i, ev)
    [] state = "dragging" /\ ev.type = "POINTER_MOVE" -> SelectDragMove(w, i, ev)
    [] state = "dragging" /\ ev.type = "POINTER_UP" -> SelectDragUp(w, i, ev)
    [] OTHER -> w

Action(w, i, state, ev) ==
  IF w.inst[i].id = "rectangle"
  THEN RectangleAction(w, i, state, ev)
  ELSE SelectAction(w, i, state, ev)

\* entry and exit hooks of the two configurations
RectangleHasEntry(state) == state \in {"idle", "active"}
\* variant of RectangleEntry: active.entry sets the cursor of idle
RectangleEntryDefaultOnly(w, i, state) ==
  IF state \in {"idle", "active"} THEN setCursor(w, "default") ELSE w
RectangleEntry(w, i, state) ==
  CASE state = "idle" -> setCursor(w, "default")
    [] state = "active" -> setCursor(w, "crosshair")
    [] OTHER -> w
RectangleHasExit(state) == state = "active"
RectangleExit(w, i, state) ==
  IF state = "active" THEN SetContext(w, i, RectangleContext) ELSE w

SelectHasEntry(state) == state \in {"active", "dragging"}
\* variant of SelectEntry: dragging.entry leaves the cursor alone
SelectEntryWithoutGrabbing(w, i, state) ==
  IF state = "active" THEN setCursor(w, "default") ELSE w
SelectEntry(w, i, state) ==
  CASE state = "active" -> setCursor(w, "default")
    [] state = "dragging" -> setCursor(w, "grabbing")
    [] OTHER -> w
SelectHasExit(state) == state \in {"active", "dragging"}
\* variant of SelectExit: active.exit leaves the drag context alone
SelectExitKeepsContext(w, i, state) ==
  IF state = "dragging" THEN setCursor(w, "default") ELSE w
SelectExit(w, i, state) ==
  CASE state = "active" -> SetContext(w, i, SelectContext)
    [] state = "dragging" -> setCursor(w, "default")
    [] OTHER -> w

HasEntry(id, state) ==
  CASE id = "rectangle" -> RectangleHasEntry(state)
    [] id = "select" -> SelectHasEntry(state)
    [] OTHER -> FALSE
HasExit(id, state) ==
  CASE id = "rectangle" -> RectangleHasExit(state)
    [] id = "select" -> SelectHasExit(state)
    [] OTHER -> FALSE
EntryHook(w, i, state) ==
  IF w.inst[i].id = "rectangle" THEN RectangleEntry(w, i, state) ELSE SelectEntry(w, i, state)
ExitHook(w, i, state) ==
  IF w.inst[i].id = "rectangle" THEN RectangleExit(w, i, state) ELSE SelectExit(w, i, state)

----------------------------------------------------------------------------
\* The state machine engine (createMachine)

\* variant of unsubscribe: the listener stays subscribed
unsubscribeNothing(w, i, listener) ==
  Logged(w, Effect("unsubscribe", "", Null, <<i, listener>>))

\* the function subscribe(listener) returns
unsubscribe(w, i, listener) ==
  LET Other(l) == l # listener
  IN Logged([w EXCEPT !.inst[i].listeners = SelectSeq(@, Other)],
            Effect("unsubscribe", "", Null, <<i, listener>>))

\* A listener is called with the current state. The listeners 1 and 2 only
\* look at it; the listener Remover calls, from inside its callback, the
\* unsubscribe function of every other listener subscribed at that moment.
Remover == 3
RECURSIVE UnsubscribeAll(_, _, _)
UnsubscribeAll(w, i, ls) ==
  IF ls = <<>> THEN w ELSE UnsubscribeAll(unsubscribe(w, i, Head(ls)), i, Tail(ls))
Invoke(w, i, listener) ==
  LET w1 == Logged(w, Effect("notify", w.inst[i].currentState, Null, <<listener>>))
      IsOther(l) == l # Remover
  IN IF listener = Remover
     THEN UnsubscribeAll(w1, i, SelectSeq(w1.inst[i].listeners, IsOther))
     ELSE w1

\* listeners.forEach(...): the round goes over the array `listeners` named
\* when it began, whatever the callbacks assign to the variable meanwhile
RECURSIVE NotifyEach(_, _, _)
NotifyEach(w, i, ls) ==
  IF ls = <<>> THEN w ELSE NotifyEach(Invoke(w, i, Head(ls)), i, Tail(ls))
notifyListeners(w, i) == NotifyEach(w, i, w.inst[i].listeners)

\* variant of transitionTo: the new state is assigned before the exit hook runs
transitionToAssignFirst(w, i, nextState) ==
  LET cur == w.inst[i].currentState
      id == w.inst[i].id
      w1 == Logged([w EXCEPT !.inst[i].currentState = nextState],
                   Effect("assign", nextState, Null, <<i>>))
      w2 == IF HasExit(id, cur) THEN ExitHook(Logged(w1, Effect("exit", cur, Null, <<i>>)), i, cur)
            ELSE w1
      w3 == IF HasEntry(id, nextState)
            THEN EntryHook(Logged(w2, Effect("entry", nextState, Null, <<i>>)), i, nextState)
            ELSE w2
  IN IF nextState = cur THEN w ELSE notifyListeners(w3, i)

\* variant of transitionTo: a transition to the current state is processed like any other
transitionToAlways(w, i, nextState) ==
  LET cur == w.inst[i].currentState
      id == w.inst[i].id
      w1 == IF HasExit(id, cur) THEN ExitHook(Logged(w, Effect("exit", cur, Null, <<i>>)), i, cur)
            ELSE w
      w2 == Logged([w1 EXCEPT !.inst[i].currentState = nextState],
                   Effect("assign", nextState, Null, <<i>>))
      w3 == IF HasEntry(id, nextState)
            THEN EntryHook(Logged(w2, Effect("entry", nextState, Null, <<i>>)), i, nextState)
            ELSE w2
  IN notifyListeners(w3, i)

transitionTo(w, i, nextState) ==
  LET cur == w.inst[i].currentState
      id == w.inst[i].id
      w1 == IF HasExit(id, cur) THEN ExitHook(Logged(w, Effect("exit", cur, Null, <<i>>)), i, cur)
            ELSE w
      w2 == Logged([w1 EXCEPT !.inst[i].currentState = nextState],
                   Effect("assign", nextState, Null, <<i>>))
      w3 == IF HasEntry(id, nextState)
            THEN EntryHook(Logged(w2, Effect("entry", nextState, Null, <<i>>)), i, nextState)
            ELSE w2
  IN IF nextState = cur THEN w ELSE notifyListeners(w3, i)

\* variant of send: a cond that returns false does not stop the transition
sendIgnoringCond(w, i, ev) ==
  LET m == w.inst[i]
      w0 == Logged(w, SendEffect(i, ev, m.currentState))
      transition == On(m.id, m.currentState, ev.type)
  IN IF ~m.isStarted THEN Logged(w0, Effect("warn", "not started", Null, <<i>>))
     ELSE IF ~transition.defined THEN w0
     ELSE IF transition.bare THEN transitionTo(w0, i, transition.target)
     ELSE LET wc == IF transition.cond
                    THEN Logged(w0, CallbackEffect("cond", i, ev, m.currentState))
                    ELSE w0
              w1 == IF transition.action
                    THEN Action(Logged(wc, CallbackEffect("action", i, ev, m.currentState)),
                                i, m.currentState, ev)
                    ELSE wc
          IN IF Thrown(w1) THEN w1 ELSE transitionTo(w1, i, transition.target)

\* variant of send: the machine is not asked whether it is started
sendWithoutStartCheck(w, i, ev) ==
  LET m == w.inst[i]
      w0 == Logged(w, SendEffect(i, ev, m.currentState))
      transition == On(m.id, m.currentState, ev.type)
  IN IF ~transition.defined THEN w0
     ELSE IF transition.bare THEN transitionTo(w0, i, transition.target)
     ELSE LET wc == IF transition.cond
                    THEN Logged(w0, CallbackEffect("cond", i, ev, m.currentState))
                    ELSE w0
              w1 == IF transition.action
                    THEN Action(Logged(wc, CallbackEffect("action", i, ev, m.currentState)),
                                i, m.currentState, ev)
                    ELSE wc
          IN IF transition.cond /\ ~Cond(m.id, m.context, m.currentState, ev)
             THEN wc
             ELSE IF Thrown(w1) THEN w1
             ELSE transitionTo(w1, i, transition.target)

send(w, i, ev) ==
  LET m == w.inst[i]
      w0 == Logged(w, SendEffect(i, ev, m.currentState))
      transition == On(m.id, m.currentState, ev.type)
  IN IF ~m.isStarted THEN Logged(w0, Effect("warn", "not started", Null, <<i>>))
     ELSE IF ~transition.defined THEN w0
     ELSE IF transition.bare THEN transitionTo(w0, i, transition.target)
     ELSE LET wc == IF transition.cond
                    THEN Logged(w0, CallbackEffect("cond", i, ev, m.currentState))
                    ELSE w0
              w1 == IF transition.action
                    THEN Action(Logged(wc, CallbackEffect("action", i, ev, m.currentState)),
                                i, m.currentState, ev)
                    ELSE wc
          IN IF transition.cond /\ ~Cond(m.id, m.context, m.currentState, ev)
             THEN wc
             ELSE IF Thrown(w1) THEN w1
             ELSE transitionTo(w1, i, transition.target)

subscribe(w, i, listener) ==
  LET w1 == [w EXCEPT !.inst[i].listeners = Append(@, listener)]
  IN Invoke(Logged(w1, Effect("subscribe", "", Null, <<i, listener>>)), i, listener)

\* variant of start: the subscribers are notified before the entry hook runs
startNotifyFirst(w, i) ==
  LET m == w.inst[i]
      w1 == notifyListeners([w EXCEPT !.inst[i].isStarted = TRUE], i)
      w2 == IF HasEntry(m.id, m.currentState)
            THEN EntryHook(Logged(w1, Effect("entry", m.currentState, Null, <<i>>)),
                           i, m.currentState)
            ELSE w1
  IN IF m.isStarted THEN w ELSE w2

\* variant of start: a started machine is started again
startAgain(w, i) ==
  LET m == w.inst[i]
      w1 == [w EXCEPT !.inst[i].isStarted = TRUE]
      w2 == IF HasEntry(m.id, m.currentState)
            THEN EntryHook(Logged(w1, Effect("entry", m.currentState, Null, <<i>>)),
                           i, m.currentState)
            ELSE w1
  IN notifyListeners(w2, i)

start(w, i) ==
  LET m == w.inst[i]
      w1 == [w EXCEPT !.inst[i].isStarted = TRUE]
      w2 == IF HasEntry(m.id, m.currentState)
            THEN EntryHook(Logged(w1, Effect("entry", m.currentState, Null, <<i>>)),
                           i, m.currentState)
            ELSE w1
  IN IF m.isStarted THEN w ELSE notifyListeners(w2, i)

\* variant of stop: the subscribers are kept
stopKeepsListeners(w, i) ==
  LET m == w.inst[i]
      w1 == IF HasExit(m.id, m.currentState)
            THEN ExitHook(Logged(w, Effect("exit", m.currentState, Null, <<i>>)),
                          i, m.currentState)
            ELSE w
  IN IF ~m.isStarted THEN w
     ELSE Logged([w1 EXCEPT !.inst[i].isStarted = FALSE], Effect("stopped", "", Null, <<i>>))

\* variant of stop: the machine goes back to `idle`, its initial state
stopResetting(w, i) ==
  LET m == w.inst[i]
      w1 == IF HasExit(m.id, m.currentState)
            THEN ExitHook(Logged(w, Effect("exit", m.currentState, Null, <<i>>)),
                          i, m.currentState)
            ELSE w
  IN IF ~m.isStarted THEN w
     ELSE Logged([w1 EXCEPT !.inst[i].isStarted = FALSE, !.inst[i].listeners = <<>>,
                            !.inst[i].currentState = "idle"],
                 Effect("stopped", "", Null, <<i>>))

stop(w, i) ==
  LET m == w.inst[i]
      w1 == IF HasExit(m.id, m.currentState)
            THEN ExitHook(Logged(w, Effect("exit", m.currentState, Null, <<i>>)),
                          i, m.currentState)
            ELSE w
  IN IF ~m.isStarted THEN w
     ELSE Logged([w1 EXCEPT !.inst[i].isStarted = FALSE, !.inst[i].listeners = <<>>],
                 Effect("stopped", "", Null, <<i>>))


----------------------------------------------------------------------------
\* The tool factory (createTool): the machine is started, every method forwards

\* config.initial of both machines
initial == "idle"

NewMachine(id) ==
  [id |-> id, currentState |-> initial, isStarted |-> FALSE, listeners |-> <<>>,
   context |-> CASE id = "rectangle" -> RectangleContext
                 [] id = "select" -> SelectContext
                 [] OTHER -> Null]

\* createRectangleMachine / createSelectMachine: a machine that is not started
createMachine(w, id) == [w EXCEPT !.inst = Append(@, NewMachine(id))]

createTool(w, id) ==
  LET w1 == createMachine(w, id)
  IN start(w1, Len(w1.inst))

handlePointerDown(w, i, p, hit, shiftKey) ==
  send(w, i, PointerEvent("POINTER_DOWN", p, hit, shiftKey))
handlePointerMove(w, i, p) == send(w, i, PointerEvent("POINTER_MOVE", p, Null, FALSE))
handlePointerUp(w, i, p) == send(w, i, PointerEvent("POINTER_UP", p, Null, FALSE))
handleKeyDown(w, i, key) == send(w, i, KeyEvent("KEY_DOWN", key))
handleKeyUp(w, i, key) == send(w, i, KeyEvent("KEY_UP", key))
activate(w, i) == send(w, i, PlainEvent("ACTIVATE"))
deactivate(w, i) == send(w, i, PlainEvent("DEACTIVATE"))
getState(i) == inst[i].currentState

\* withSnapping. A coordinate the wrapper computes is a number or NaN.
NaN == Null
Finite(n) == Some(n)
\* Math.round(n / g) for g # 0: the nearest integer, a tie going up
Round(n, g) ==
  IF g > 0 THEN (2 * n + g) \div (2 * g) ELSE (-2 * n - g) \div (-2 * g)
\* Math.round(n / g) * g: n / 0 is infinite or NaN, and its product with 0 NaN
snapCoord(n, g) == IF g = 0 THEN NaN ELSE Finite(Round(n, g) * g)
snapPoint(point, g) == [x |-> snapCoord(point.x, g), y |-> snapCoord(point.y, g)]
AsNumbers(point) == [x |-> Finite(point.x), y |-> Finite(point.y)]
IsFinitePoint(point) == ~IsNull(point.x) /\ ~IsNull(point.y)
\* tool.handlePointerDown / Move / Up of the wrapped tool i, as a spy sees
\* it: the call with its point (no numbers when a coordinate is NaN) and
\* its raw event, then the tool's send
ToolType(method) ==
  CASE method = "handlePointerDown" -> "POINTER_DOWN"
    [] method = "handlePointerMove" -> "POINTER_MOVE"
    [] OTHER -> "POINTER_UP"
HandlePointer(w, i, method, point, raw) ==
  LET seen == [Effect("handle", method, Null,
                      IF IsFinitePoint(point) THEN <<Val(point.x), Val(point.y)>> ELSE <<>>)
                 EXCEPT !.ev = Some(raw)]
      p == IF IsFinitePoint(point) THEN Pt(Val(point.x), Val(point.y)) ELSE point
  IN send(Logged(w, seen), i, [raw EXCEPT !.type = ToolType(method), !.point = Some(p)])
\* the method of withSnapping(config)(tool): the tool's own when snapping is
\* disabled, the wrapper's otherwise
withSnapping(w, i, gridSize, enabled, method, point, raw) ==
  IF ~enabled THEN HandlePointer(w, i, method, AsNumbers(point), raw)
  ELSE HandlePointer(w, i, method, snapPoint(point, gridSize), raw)
\* variant of isActive: only the state `active` counts
isActiveInActiveOnly(i) == inst[i].currentState = "active"
isActive(i) == inst[i].currentState # "idle"

----------------------------------------------------------------------------
\* The world the calls act on, and the state after construction

World ==
  [inst |-> inst, shapes |-> shapes, selectedShapeIds |-> selectedShapeIds,
   cursor |-> cursor, now |-> now, log |-> <<>>]

\* the world at the start of a call: the log holds the call's name only
Call(name) == [World EXCEPT !.log = <<Effect("call", name, Null, <<>>)>>]
\* the same for a call on machine i
CallOn(name, i) == [World EXCEPT !.log = <<Effect("call", name, Null, <<i>>)>>]

\* the sends of event type `type` to instance i in a log, and the calls of
\* instance i's actions on such an event
Sends(lg, i, type) ==
  {k \in 1..Len(lg) : lg[k].k = "send" /\ lg[k].s = type /\ lg[k].arg = <<i>>}
Actions(lg, i, type) ==
  {k \in 1..Len(lg) : lg[k].k = "action" /\ lg[k].s = type /\ lg[k].arg = <<i>>}

\* history: the gesture of instance i. A POINTER_DOWN handled in `active`
\* opens it (the rectangle tool's with the shape it creates, the select
\* tool's with the shape it hits); a POINTER_UP or an Escape in `drawing`
\* ends it, recording the size the shape had; the next call drops it. A
\* POINTER_DOWN of the select tool that hits no shape is kept, with phase
\* "miss", until the tool handles its next POINTER_DOWN.
GestureAfter(w) ==
  [i \in 1..Len(w.inst) |->
     LET old == IF i <= Len(gesture) /\ ~IsNull(gesture[i]) /\ Val(gesture[i]).phase = "open"
                THEN gesture[i] ELSE Null
         downs == {k \in Actions(w.log, i, "POINTER_DOWN") : w.log[k].from = "active"}
         ev == Val(w.log[CHOOSE k \in downs : TRUE].ev)
         escapes == {k \in Actions(w.log, i, "KEY_DOWN") : w.log[k].from = "drawing"}
         g == Val(old)
         Ended(phase) ==
           Some([g EXCEPT !.phase = phase,
                          !.width = IF g.id \in DOMAIN shapes THEN shapes[g.id].width ELSE -1,
                          !.height = IF g.id \in DOMAIN shapes THEN shapes[g.id].height ELSE -1])
     IN IF downs # {}
        THEN IF w.inst[i].id = "rectangle"
             THEN Some([point |-> Val(ev.point), id |-> RectId(w.now), pos |-> Val(ev.point),
                        phase |-> "open", width |-> 0, height |-> 0])
             ELSE IF ~IsNull(ev.hit) /\ Val(ev.hit) \in DOMAIN shapes
             THEN Some([point |-> Val(ev.point), id |-> Val(ev.hit),
                        pos |-> Pt(shapes[Val(ev.hit)].x, shapes[Val(ev.hit)].y),
                        phase |-> "open", width |-> 0, height |-> 0])
             ELSE IF Thrown(w) THEN Null
             ELSE Some([point |-> Pt(0, 0), id |-> ShapeK(0), pos |-> Pt(0, 0),
                        phase |-> "miss", width |-> 0, height |-> 0])
        ELSE IF i <= Len(gesture) /\ ~IsNull(gesture[i]) /\ Val(gesture[i]).phase = "miss"
        THEN gesture[i]
        ELSE IF ~IsNull(old) /\ Sends(w.log, i, "POINTER_UP") # {} THEN Ended("up")
        ELSE IF ~IsNull(old) /\ escapes # {} THEN Ended("escape")
        ELSE IF w.inst[i].currentState = "idle" THEN Null
        ELSE old]

\* history: the unsubscribe function subscribe returned for listener l of
\* instance i: "none" before any subscribe(l), "live" after one, "called"
\* once it has been called with no subscribe(l) since
NoHandles == [l \in ListenerIds |-> "none"]
HandlesAfter(w) ==
  [i \in 1..Len(w.inst) |->
     [l \in ListenerIds |->
        IF \E k \in 1..Len(w.log) : w.log[k].k = "subscribe" /\ w.log[k].arg = <<i, l>>
        THEN "live"
        ELSE IF \E k \in 1..Len(w.log) : w.log[k].k = "unsubscribe" /\ w.log[k].arg = <<i, l>>
        THEN "called"
        ELSE IF i <= Len(handles) THEN handles[i][l] ELSE "none"]]

\* history: instance i was activated from idle and got no POINTER_DOWN since
FreshAfter(w) ==
  [i \in 1..Len(w.inst) |->
     LET entered == i <= Len(inst) /\ inst[i].currentState = "idle"
                    /\ w.inst[i].currentState = "active"
         gotDown == Sends(w.log, i, "POINTER_DOWN") # {}
     IN entered \/ (i <= Len(fresh) /\ fresh[i] /\ ~gotDown
                    /\ w.inst[i].currentState = "active")]

SetWorld(w) ==
  /\ inst' = w.inst
  /\ shapes' = w.shapes
  /\ selectedShapeIds' = w.selectedShapeIds
  /\ cursor' = w.cursor
  /\ log' = w.log
  /\ fresh' = FreshAfter(w)
  /\ gesture' = GestureAfter(w)
  /\ handles' = HandlesAfter(w)

\* no ToolManagerHybrid has been constructed
NoHybrid == [tools |-> <<>>, currentTool |-> Null, strayed |-> FALSE]

InitialShapes ==
  [k \in {ShapeK(1), ShapeK(2)} |->
     IF k = ShapeK(1) THEN [x |-> 3, y |-> 4, width |-> 6, height |-> 6]
     ELSE [x |-> 7, y |-> 2, width |-> 6, height |-> 6]]

InitWorld ==
  [inst |-> <<>>, shapes |-> InitialShapes, selectedShapeIds |-> {},
   cursor |-> "", now |-> 0, log |-> <<>>]

\* after createToolManager(): no tool created or registered yet
Init ==
  /\ inst = InitWorld.inst
  /\ shapes = InitWorld.shapes
  /\ selectedShapeIds = InitWorld.selectedShapeIds
  /\ currentTool = "select"
  /\ cursor = InitWorld.cursor
  /\ tools = <<>>
  /\ activeToolId = Null
  /\ activeTool = Null
  /\ now = 0
  /\ fresh = <<>>
  /\ gesture = <<>>
  /\ handles = <<>>
  /\ hybrid = NoHybrid
  /\ log = <<>>

----------------------------------------------------------------------------
\* The tool manager (createToolManager)

ManagerUnchanged == UNCHANGED <<tools, activeToolId, activeTool, currentTool, hybrid>>

\* variant of DeactivateCurrent: the current tool is not deactivated
DeactivateCurrentSkipped(w) == w

\* setActiveTool, first step: deactivate the current tool
DeactivateCurrent(w) ==
  IF ~IsNull(activeTool) THEN deactivate(w, Val(activeTool)) ELSE w

\* variant of SetActiveTool: the store is told before the tool is activated
SetActiveToolStoreFirst(toolId) ==
  LET w1 == DeactivateCurrent(Call("setActiveTool"))
  IN IF toolId \notin DOMAIN tools
     THEN /\ SetWorld(Logged(w1, Effect("warn", toolId, Null, <<>>)))
          /\ ManagerUnchanged
          /\ UNCHANGED now
     ELSE /\ activeToolId' = Some(toolId)
          /\ activeTool' = Some(tools[toolId])
          /\ currentTool' = toolId
          /\ SetWorld(activate(Logged(w1, Effect("setState", toolId, Null, <<>>)),
                               tools[toolId]))
          /\ UNCHANGED <<tools, now, hybrid>>

\* variant of SetActiveTool: an unknown id re-activates the current tool
SetActiveToolReactivating(toolId) ==
  LET w1 == DeactivateCurrent(Call("setActiveTool"))
      w2 == IF ~IsNull(activeTool) THEN activate(w1, Val(activeTool)) ELSE w1
  IN IF toolId \notin DOMAIN tools
     THEN /\ SetWorld(Logged(w2, Effect("warn", toolId, Null, <<>>)))
          /\ ManagerUnchanged
          /\ UNCHANGED now
     ELSE /\ activeToolId' = Some(toolId)
          /\ activeTool' = Some(tools[toolId])
          /\ currentTool' = toolId
          /\ SetWorld(Logged(activate(w1, tools[toolId]),
                             Effect("setState", toolId, Null, <<>>)))
          /\ UNCHANGED <<tools, now, hybrid>>

\* variant of SetActiveTool: an unknown id leaves the manager without an
\* active tool
SetActiveToolForgetting(toolId) ==
  LET w1 == DeactivateCurrent(Call("setActiveTool"))
  IN IF toolId \notin DOMAIN tools
     THEN /\ SetWorld(Logged(w1, Effect("warn", toolId, Null, <<>>)))
          /\ activeToolId' = Null
          /\ activeTool' = Null
          /\ UNCHANGED <<tools, currentTool, now, hybrid>>
     ELSE /\ activeToolId' = Some(toolId)
          /\ activeTool' = Some(tools[toolId])
          /\ currentTool' = toolId
          /\ SetWorld(Logged(activate(w1, tools[toolId]),
                             Effect("setState", toolId, Null, <<>>)))
          /\ UNCHANGED <<tools, now, hybrid>>

SetActiveTool(toolId) ==
  LET w1 == DeactivateCurrent(Call("setActiveTool"))
  IN IF toolId \notin DOMAIN tools
     THEN /\ SetWorld(Logged(w1, Effect("warn", toolId, Null, <<>>)))
          /\ ManagerUnchanged
          /\ UNCHANGED now
     ELSE /\ activeToolId' = Some(toolId)
          /\ activeTool' = Some(tools[toolId])
          /\ currentTool' = toolId
          /\ SetWorld(Logged(activate(w1, tools[toolId]),
                             Effect("setState", toolId, Null, <<>>)))
          /\ UNCHANGED <<tools, now, hybrid>>

\* variant of RegisterTool: an id that is already registered keeps its tool
RegisterToolKeepFirst(i) ==
  /\ tools' = [k \in DOMAIN tools \cup {inst[i].id} |->
                 IF k \in DOMAIN tools THEN tools[k] ELSE i]
  /\ SetWorld(Logged(Call("registerTool"), Effect("register", inst[i].id, Null, <<i>>)))
  /\ UNCHANGED <<activeToolId, activeTool, currentTool, now, hybrid>>

RegisterTool(i) ==
  /\ tools' = [k \in DOMAIN tools \cup {inst[i].id} |->
                 IF k = inst[i].id THEN i ELSE tools[k]]
  /\ SetWorld(Logged(Call("registerTool"), Effect("register", inst[i].id, Null, <<i>>)))
  /\ UNCHANGED <<activeToolId, activeTool, currentTool, now, hybrid>>

getActiveTool == activeToolId
getTools == {tools[k] : k \in DOMAIN tools}

\* variant of Dispatched: the call is forwarded without asking for an active tool
DispatchedAlways(name, w) == w

\* dispatch: the call reaches the active tool, if there is one
Dispatched(name, w) == IF ~IsNull(activeTool) THEN w ELSE Call(name)

ActiveIndex == IF IsNull(activeTool) THEN 1 ELSE Val(activeTool)

HandlePointerDown(p, hit, shiftKey) ==
  /\ SetWorld(Dispatched("handlePointerDown",
        handlePointerDown(Call("handlePointerDown"), ActiveIndex, p, hit, shiftKey)))
  /\ ManagerUnchanged
  /\ UNCHANGED now
HandlePointerMove(p) ==
  /\ SetWorld(Dispatched("handlePointerMove",
        handlePointerMove(Call("handlePointerMove"), ActiveIndex, p)))
  /\ ManagerUnchanged
  /\ UNCHANGED now
HandlePointerUp(p) ==
  /\ SetWorld(Dispatched("handlePointerUp",
        handlePointerUp(Call("handlePointerUp"), ActiveIndex, p)))
  /\ ManagerUnchanged
  /\ UNCHANGED now
HandleKeyDown(key) ==
  /\ SetWorld(Dispatched("handleKeyDown", handleKeyDown(Call("handleKeyDown"), ActiveIndex, key)))
  /\ ManagerUnchanged
  /\ UNCHANGED now
HandleKeyUp(key) ==
  /\ SetWorld(Dispatched("handleKeyUp", handleKeyUp(Call("handleKeyUp"), ActiveIndex, key)))
  /\ ManagerUnchanged
  /\ UNCHANGED now

\* createSelectTool / createRectangleTool called by the host
CreateSelectTool ==
  /\ Len(inst) < MaxTools
  /\ SetWorld(createTool(Call("createSelectTool"), "select"))
  /\ ManagerUnchanged
  /\ UNCHANGED now
CreateRectangleTool ==
  /\ Len(inst) < MaxTools
  /\ SetWorld(createTool(Call("createRectangleTool"), "rectangle"))
  /\ ManagerUnchanged
  /\ UNCHANGED now

\* the clock advances between calls
Tick ==
  /\ now < MaxClock
  /\ now' = now + 1
  /\ UNCHANGED <<inst, shapes, selectedShapeIds, currentTool, cursor, tools,
                 activeToolId, activeTool, fresh, gesture, handles, hybrid, log>>

\* the shape the raw event's target resolves to: none, or a shape element of
\* the canvas
Hits == {Null} \cup {Some(id) : id \in DOMAIN InitialShapes}

Register == \E i \in 1..Len(inst) : RegisterTool(i)
Activate == \E toolId \in RequestedIds : SetActiveTool(toolId)
PointerDown ==
  \E p \in Points, hit \in Hits, shiftKey \in BOOLEAN : HandlePointerDown(p, hit, shiftKey)
PointerMove == \E p \in Points : HandlePointerMove(p)
PointerUp == \E p \in Points : HandlePointerUp(p)
KeyDown == \E key \in Keys : HandleKeyDown(key)
KeyUp == \E key \in Keys : HandleKeyUp(key)

\* registerTool and setActiveTool calls only
NextReg ==
  \/ CreateSelectTool
  \/ CreateRectangleTool
  \/ Register
  \/ Activate
SpecReg == Init /\ [][NextReg]_vars

\* A manager holding the select and the rectangle tool: the state after
\* registerTool(createSelectTool()); registerTool(createRectangleTool())
AppWorld == createTool(createTool(InitWorld, "select"), "rectangle")
InitApp ==
  /\ inst = AppWorld.inst
  /\ shapes = AppWorld.shapes
  /\ selectedShapeIds = AppWorld.selectedShapeIds
  /\ currentTool = "select"
  /\ cursor = AppWorld.cursor
  /\ tools = [k \in ToolIds |-> IF k = "select" THEN 1 ELSE 2]
  /\ activeToolId = Null
  /\ activeTool = Null
  /\ now = 0
  /\ fresh = <<FALSE, FALSE>>
  /\ gesture = <<Null, Null>>
  /\ handles = <<NoHandles, NoHandles>>
  /\ hybrid = NoHybrid
  /\ log = <<>>

\* every call on that manager
Next ==
  \/ Activate
  \/ PointerDown
  \/ PointerMove
  \/ PointerUp
  \/ KeyDown
  \/ KeyUp
  \/ Tick
Spec == InitApp /\ [][Next]_vars

\* the calls on that manager, with the clock standing still
NextManager ==
  \/ Activate
  \/ PointerDown
  \/ PointerMove
  \/ PointerUp
  \/ KeyDown
  \/ KeyUp
SpecManager == InitApp /\ [][NextManager]_vars

----------------------------------------------------------------------------
\* One machine driven directly: machine.send and machine.subscribe on the
\* machine of a tool built by createSelectTool or createRectangleTool

Events ==
  {PlainEvent(t) : t \in {"ACTIVATE", "DEACTIVATE", "COMPLETE", "CANCEL"}}
  \cup {PointerEvent("POINTER_DOWN", p, hit, shiftKey) :
          p \in Points, hit \in Hits, shiftKey \in BOOLEAN}
  \cup {PointerEvent(t, p, Null, FALSE) : t \in {"POINTER_MOVE", "POINTER_UP"}, p \in Points}
  \cup {KeyEvent(t, key) : t \in {"KEY_DOWN", "KEY_UP"}, key \in Keys}

MachineSend(i, ev) ==
  /\ SetWorld(send(Call("send"), i, ev))
  /\ ManagerUnchanged
  /\ UNCHANGED now

MachineSubscribe(i, listener) ==
  /\ Len(inst[i].listeners) < MaxListeners
  /\ SetWorld(subscribe(Call("subscribe"), i, listener))
  /\ ManagerUnchanged
  /\ UNCHANGED now

NewSelectMachine == inst = <<>> /\ CreateSelectTool
NewRectangleMachine == inst = <<>> /\ CreateRectangleTool
Send == \E i \in 1..Len(inst), ev \in Events : MachineSend(i, ev)
Subscribe == \E i \in 1..Len(inst), listener \in ListenerIds : MachineSubscribe(i, listener)

NextMachine ==
  \/ NewSelectMachine
  \/ NewRectangleMachine
  \/ Send
  \/ Subscribe
  \/ Tick
SpecMachine == Init /\ [][NextMachine]_vars

\* One machine driven by every event of the closed set in every state, the
\* pointer events whose raw event has no target included
RawEvents ==
  Events
  \cup {UntargetedPointerEvent(t, p, shiftKey) :
          t \in {"POINTER_DOWN", "POINTER_MOVE", "POINTER_UP"},
          p \in Points, shiftKey \in BOOLEAN}
SendRaw == \E i \in 1..Len(inst), ev \in RawEvents : MachineSend(i, ev)
NextEvents ==
  \/ NewSelectMachine
  \/ NewRectangleMachine
  \/ SendRaw
SpecEvents == Init /\ [][NextEvents]_vars

----------------------------------------------------------------------------
\* The lifecycle of one machine: built by createSelectMachine or
\* createRectangleMachine (not started), then start, stop, send, subscribe
\* and the unsubscribe functions, in any order

CreateSelectMachine ==
  /\ inst = <<>>
  /\ SetWorld(createMachine(Call("createSelectMachine"), "select"))
  /\ ManagerUnchanged
  /\ UNCHANGED now
CreateRectangleMachine ==
  /\ inst = <<>>
  /\ SetWorld(createMachine(Call("createRectangleMachine"), "rectangle"))
  /\ ManagerUnchanged
  /\ UNCHANGED now

MachineStart(i) ==
  /\ SetWorld(start(CallOn("start", i), i))
  /\ ManagerUnchanged
  /\ UNCHANGED now

MachineStop(i) ==
  /\ SetWorld(stop(CallOn("stop", i), i))
  /\ ManagerUnchanged
  /\ UNCHANGED now

\* an unsubscribe function exists once subscribe(listener) has returned it,
\* and can be called any number of times
MachineUnsubscribe(i, listener) ==
  /\ handles[i][listener] # "none"
  /\ SetWorld(unsubscribe(CallOn("unsubscribe", i), i, listener))
  /\ ManagerUnchanged
  /\ UNCHANGED now

Start == \E i \in 1..Len(inst) : MachineStart(i)
Stop == \E i \in 1..Len(inst) : MachineStop(i)
Unsubscribe ==
  \E i \in 1..Len(inst), listener \in ListenerIds : MachineUnsubscribe(i, listener)

NextLifecycle ==
  \/ CreateSelectMachine
  \/ CreateRectangleMachine
  \/ Start
  \/ Stop
  \/ Send
  \/ Subscribe
  \/ Unsubscribe
SpecLifecycle == Init /\ [][NextLifecycle]_vars

----------------------------------------------------------------------------
\* ToolManagerHybrid beside createToolManager: each manager has its own
\* select and rectangle tool (the hybrid's behind a ToolAdapter each), both
\* act on the same store and canvas, and every call is made on the manager
\* first and on the hybrid manager next. hybrid.strayed records that an id
\* that is not registered has been requested.

\* variant of HybridSetActiveTool: the current tool is not deactivated
HybridSetActiveToolKeepingOld(w, toolId) ==
  IF toolId \notin DOMAIN hybrid.tools
  THEN Logged(w, Effect("warn", toolId, Null, <<>>))
  ELSE Logged(activate(w, hybrid.tools[toolId]), Effect("setState", toolId, Null, <<>>))

\* ToolManagerHybrid.setActiveTool(toolId): the world after it
HybridSetActiveTool(w, toolId) ==
  IF toolId \notin DOMAIN hybrid.tools
  THEN Logged(w, Effect("warn", toolId, Null, <<>>))
  ELSE LET w1 == IF ~IsNull(hybrid.currentTool)
                 THEN deactivate(w, Val(hybrid.currentTool)) ELSE w
       IN Logged(activate(w1, hybrid.tools[toolId]), Effect("setState", toolId, Null, <<>>))
HybridAfter(toolId) ==
  IF toolId \notin DOMAIN hybrid.tools
  THEN [hybrid EXCEPT !.strayed = TRUE]
  ELSE [hybrid EXCEPT !.currentTool = Some(hybrid.tools[toolId])]
\* ToolManagerHybrid.getActiveTool()
HybridGetActiveTool ==
  IF IsNull(hybrid.currentTool) THEN "" ELSE inst[Val(hybrid.currentTool)].id
\* ToolManagerHybrid.handle*: the adapter of the current tool, if any,
\* passes the call on to its tool
HybridIndex == IF IsNull(hybrid.currentTool) THEN 1 ELSE Val(hybrid.currentTool)
HybridDispatched(w, handled) == IF ~IsNull(hybrid.currentTool) THEN handled ELSE w

\* createToolManager's setActiveTool(toolId): the world after it
SetActiveToolWorld(toolId) ==
  LET w1 == DeactivateCurrent(Call("setActiveTool"))
  IN IF toolId \notin DOMAIN tools
     THEN Logged(w1, Effect("warn", toolId, Null, <<>>))
     ELSE Logged(activate(w1, tools[toolId]), Effect("setState", toolId, Null, <<>>))

BothSetActiveTool(toolId) ==
  /\ SetWorld(HybridSetActiveTool(SetActiveToolWorld(toolId), toolId))
  /\ activeToolId' = IF toolId \in DOMAIN tools THEN Some(toolId) ELSE activeToolId
  /\ activeTool' = IF toolId \in DOMAIN tools THEN Some(tools[toolId]) ELSE activeTool
  /\ currentTool' = IF toolId \in DOMAIN tools THEN toolId ELSE currentTool
  /\ hybrid' = HybridAfter(toolId)
  /\ UNCHANGED <<tools, now>>
BothHandlePointerDown(p, hit, shiftKey) ==
  LET w == Dispatched("handlePointerDown",
             handlePointerDown(Call("handlePointerDown"), ActiveIndex, p, hit, shiftKey))
  IN /\ SetWorld(HybridDispatched(w, handlePointerDown(w, HybridIndex, p, hit, shiftKey)))
     /\ ManagerUnchanged
     /\ UNCHANGED now
BothHandlePointerMove(p) ==
  LET w == Dispatched("handlePointerMove",
             handlePointerMove(Call("handlePointerMove"), ActiveIndex, p))
  IN /\ SetWorld(HybridDispatched(w, handlePointerMove(w, HybridIndex, p)))
     /\ ManagerUnchanged
     /\ UNCHANGED now
BothHandlePointerUp(p) ==
  LET w == Dispatched("handlePointerUp", handlePointerUp(Call("handlePointerUp"), ActiveIndex, p))
  IN /\ SetWorld(HybridDispatched(w, handlePointerUp(w, HybridIndex, p)))
     /\ ManagerUnchanged
     /\ UNCHANGED now
BothHandleKeyDown(key) ==
  LET w == Dispatched("handleKeyDown", handleKeyDown(Call("handleKeyDown"), ActiveIndex, key))
  IN /\ SetWorld(HybridDispatched(w, handleKeyDown(w, HybridIndex, key)))
     /\ ManagerUnchanged
     /\ UNCHANGED now
BothHandleKeyUp(key) ==
  LET w == Dispatched("handleKeyUp", handleKeyUp(Call("handleKeyUp"), ActiveIndex, key))
  IN /\ SetWorld(HybridDispatched(w, handleKeyUp(w, HybridIndex, key)))
     /\ ManagerUnchanged
     /\ UNCHANGED now

\* after createToolManager(), registerTool of a select and a rectangle tool
\* and setActiveTool("select") on one side, new ToolManagerHybrid() on the
\* other: the tools 1 and 2 are the manager's, 3 and 4 the hybrid manager's
HybridWorld ==
  LET made == createTool(createTool(createTool(createTool(InitWorld, "select"),
                                               "rectangle"), "select"), "rectangle")
  IN [activate(activate(made, 1), 3) EXCEPT !.log = <<>>]
InitHybrid ==
  /\ inst = HybridWorld.inst
  /\ shapes = HybridWorld.shapes
  /\ selectedShapeIds = HybridWorld.selectedShapeIds
  /\ currentTool = "select"
  /\ cursor = HybridWorld.cursor
  /\ tools = [k \in ToolIds |-> IF k = "select" THEN 1 ELSE 2]
  /\ activeToolId = Some("select")
  /\ activeTool = Some(1)
  /\ now = 0
  /\ fresh = <<TRUE, FALSE, TRUE, FALSE>>
  /\ gesture = <<Null, Null, Null, Null>>
  /\ handles = <<NoHandles, NoHandles, NoHandles, NoHandles>>
  /\ hybrid = [tools |-> [k \in ToolIds |-> IF k = "select" THEN 3 ELSE 4],
               currentTool |-> Some(3), strayed |-> FALSE]
  /\ log = <<>>

\* the comparison ends with the first request of an id that is not registered
Comparing == ~hybrid.strayed
BothActivate == Comparing /\ \E toolId \in RequestedIds : BothSetActiveTool(toolId)
BothPointerDown ==
  /\ Comparing
  /\ \E p \in Points, hit \in Hits, shiftKey \in BOOLEAN : BothHandlePointerDown(p, hit, shiftKey)
BothPointerMove == Comparing /\ \E p \in Points : BothHandlePointerMove(p)
BothPointerUp == Comparing /\ \E p \in Points : BothHandlePointerUp(p)
BothKeyDown == Comparing /\ \E key \in Keys : BothHandleKeyDown(key)
BothKeyUp == Comparing /\ \E key \in Keys : BothHandleKeyUp(key)
NextHybrid ==
  \/ BothActivate
  \/ BothPointerDown
  \/ BothPointerMove
  \/ BothPointerUp
  \/ BothKeyDown
  \/ BothKeyUp
SpecHybrid == InitHybrid /\ [][NextHybrid]_vars

----------------------------------------------------------------------------
\* One started machine whose listeners may include the Remover: it is
\* switched between idle and active while listeners subscribe

SubscribeRemover == \E i \in 1..Len(inst) : MachineSubscribe(i, Remover)
SendSwitch ==
  \E i \in 1..Len(inst), type \in {"ACTIVATE", "DEACTIVATE"} : MachineSend(i, PlainEvent(type))
NextNotify ==
  \/ NewSelectMachine
  \/ NewRectangleMachine
  \/ Subscribe
  \/ SubscribeRemover
  \/ SendSwitch
SpecNotify == Init /\ [][NextNotify]_vars

----------------------------------------------------------------------------
\* The helper withSnapping around the helper tests' tool: each call picks the
\* configuration of the wrapper, the method, the point and the raw event

GridSizes == {0, 5, 10, -5}
SnapInputs == {Pt(23, 47), Pt(12, 18), Pt(-5, 5), Pt(0, 0)}
RawPointerEvents == {PointerEvent("pointer", Pt(0, 0), Null, shiftKey) : shiftKey \in BOOLEAN}
CreateMockTool ==
  /\ inst = <<>>
  /\ SetWorld(createTool(Call("createMockTool"), "mock"))
  /\ ManagerUnchanged
  /\ UNCHANGED now
SnappedCall(method) ==
  \E i \in 1..Len(inst), gridSize \in GridSizes, enabled \in BOOLEAN,
     point \in SnapInputs, raw \in RawPointerEvents :
    /\ SetWorld(withSnapping(
         Logged(Call("withSnapping"),
                [Effect("config", method, Null, <<point.x, point.y, gridSize>>)
                   EXCEPT !.ev = Some(raw), !.from = IF enabled THEN "enabled" ELSE "disabled"]),
         i, gridSize, enabled, method, point, raw))
    /\ ManagerUnchanged
    /\ UNCHANGED now
SnappedPointerDown == SnappedCall("handlePointerDown")
SnappedPointerMove == SnappedCall("handlePointerMove")
SnappedPointerUp == SnappedCall("handlePointerUp")
NextSnap ==
  \/ CreateMockTool
  \/ SnappedPointerDown
  \/ SnappedPointerMove
  \/ SnappedPointerUp
SpecSnap == Init /\ [][NextSnap]_vars

----------------------------------------------------------------------------
\* The helper getRectBounds, called on every pair of points of a grid that
\* includes negative coordinates, in both orders

GridPoints == {Pt(x, y) : x, y \in -MaxCoord..MaxCoord}
BoundsEffect(p, q) ==
  LET r == getRectBounds(p, q)
  IN Effect("getRectBounds", "", Null,
            <<p.x, p.y, q.x, q.y, r.x, r.y, r.width, r.height>>)
GetRectBounds ==
  \E a, b \in GridPoints :
    /\ SetWorld(Logged(Logged(Call("getRectBounds"), BoundsEffect(a, b)),
                       BoundsEffect(b, a)))
    /\ ManagerUnchanged
    /\ UNCHANGED now
NextBounds == GetRectBounds
SpecBounds == Init /\ [][NextBounds]_vars

----------------------------------------------------------------------------
\* Properties

Instances == 1..Len(inst)
Rectangles == {i \in Instances : inst[i].id = "rectangle"}
Selects == {i \in Instances : inst[i].id = "select"}
CallIs(name) == log # <<>> /\ log[1] = Effect("call", name, Null, <<>>)
\* the point of the event passed to a cond or an action of instance i
CallbackPoints(i) ==
  {Val(Val(log[c].ev).point) : c \in {k \in 1..Len(log) :
      log[k].k \in {"cond", "action"} /\ log[k].arg = <<i>> /\ ~IsNull(Val(log[k].ev).point)}}
StoreKinds == {"addShape", "updateShape", "removeShape", "selectShape", "clearSelection"}
StoreCalls == {k \in 1..Len(log) : log[k].k \in StoreKinds}

\* C1: after every registerTool and setActiveTool call, at most one tool
\* instance reports isActive() = TRUE.
C1_AtMostOneActive == Cardinality({i \in Instances : isActive(i)}) <= 1

\* C1 witness: setActiveTool has deactivated an active instance and activated
\* the instance registered later under the same id.
C1_Witness ==
  /\ CallIs("setActiveTool")
  /\ \E i, j \in Instances :
       /\ j < i /\ inst[j].id = inst[i].id /\ isActive(i)
       /\ \E k \in Sends(log, j, "DEACTIVATE") : log[k].from = "active"

\* C2: with pointer and keyboard events interleaved with setActiveTool calls,
\* at most one tool is non-idle after each call (a tool that was mid-gesture
\* when another one was activated is idle afterwards).
C2_OneLiveTool ==
  \A i, j \in Instances : (getState(i) # "idle" /\ getState(j) # "idle") => i = j

\* C3: every POINTER_MOVE to p the rectangle tool receives in `drawing`, after
\* a POINTER_DOWN at s that created shape id, makes the store receive
\* updateShape(id, {min(s.x,p.x), min(s.y,p.y), |p.x-s.x|, |p.y-s.y|}) and
\* leaves the tool in `drawing`.
C3_MoveUpdatesBounds ==
  \A i \in Rectangles : \A k \in Sends(log, i, "POINTER_MOVE") :
    log[k].from = "drawing" =>
      /\ getState(i) = "drawing"
      /\ ~IsNull(gesture[i])
      /\ \E p \in CallbackPoints(i) :
           LET g == Val(gesture[i])
               s == g.point
           IN \E u \in 1..Len(log) :
                log[u] = Effect("updateShape", "", Some(g.id),
                                <<Min(s.x, p.x), Min(s.y, p.y),
                                  Abs(p.x - s.x), Abs(p.y - s.y)>>)

\* C4: in every `drawing` state of the rectangle tool, startPoint is the point
\* of the POINTER_DOWN that started the gesture and currentShapeId the id of
\* the shape it added; neither is null.
C4_DrawingContext ==
  \A i \in Rectangles :
    getState(i) = "drawing" =>
      /\ ~IsNull(gesture[i])
      /\ inst[i].context.startPoint = Some(Val(gesture[i]).point)
      /\ inst[i].context.currentShapeId = Some(Val(gesture[i]).id)

\* C5: when POINTER_UP has ended a rectangle gesture, the created shape is
\* absent from the store if its width and height were both < 5 and present
\* otherwise.
C5_SmallRectangleCleanup ==
  \A i \in Rectangles :
    (~IsNull(gesture[i]) /\ Val(gesture[i]).phase = "up") =>
      LET g == Val(gesture[i])
      IN IF g.width < 5 /\ g.height < 5
         THEN g.id \notin DOMAIN shapes
         ELSE g.id \in DOMAIN shapes

\* C6: a KEY_DOWN the rectangle tool receives in `drawing` removes the
\* in-progress shape and returns to `active` when the key is Escape, and
\* leaves state and store unchanged for any other key.
C6_EscapeCancels ==
  \A i \in Rectangles : \A k \in Sends(log, i, "KEY_DOWN") :
    log[k].from = "drawing" =>
      \E c \in 1..Len(log) :
        /\ log[c].k = "cond" /\ log[c].arg = <<i>>
        /\ IF Val(log[c].ev).key = "Escape"
           THEN /\ getState(i) = "active"
                /\ ~IsNull(gesture[i])
                /\ Val(gesture[i]).id \notin DOMAIN shapes
           ELSE getState(i) = "drawing" /\ StoreCalls = {}

\* C7: after a POINTER_DOWN at d that hit shape S at position q, every
\* POINTER_MOVE to p before the POINTER_UP makes the store receive
\* updateShape(S, {q.x + (p.x - d.x), q.y + (p.y - d.y)}).
C7_DragFromSnapshot ==
  \A i \in Selects : \A k \in Sends(log, i, "POINTER_MOVE") :
    (~IsNull(gesture[i]) /\ Val(gesture[i]).phase = "open") =>
      \E p \in CallbackPoints(i) :
        LET g == Val(gesture[i])
        IN \E u \in 1..Len(log) :
             log[u] = Effect("updateShape", "", Some(g.id),
                             <<g.pos.x + (p.x - g.point.x), g.pos.y + (p.y - g.point.y)>>)

\* C8: a tool in `idle`, and a tool that entered `active` from `idle` and has
\* received no POINTER_DOWN since, has every field of its context null.
C8_NoContextSurvives ==
  \A i \in Instances :
    (getState(i) = "idle" \/ (getState(i) = "active" /\ fresh[i])) =>
      IF i \in Rectangles
      THEN IsNull(inst[i].context.startPoint) /\ IsNull(inst[i].context.currentShapeId)
      ELSE /\ IsNull(inst[i].context.draggedShapeId)
           /\ IsNull(inst[i].context.dragStart)
           /\ IsNull(inst[i].context.shapeStartPosition)

\* C8 witness: the select tool is active again, with no POINTER_DOWN since,
\* after an earlier activation in which a POINTER_DOWN hit a shape.
C8_Witness ==
  \E i \in Selects :
    /\ getState(i) = "active" /\ fresh[i]
    /\ selectedShapeIds # {}
    /\ \E k \in Sends(log, i, "ACTIVATE") : log[k].from = "idle"

\* the engine's steps in the log: <<kind, state or event type, argument>>
IsEngineStep(e) == e.k \in {"action", "exit", "assign", "entry", "notify"}
EngineSteps == [k \in 1..Len(SelectSeq(log, IsEngineStep)) |->
                  LET e == SelectSeq(log, IsEngineStep)[k] IN <<e.k, e.s, e.arg>>]
Optional(present, step) == IF present THEN <<step>> ELSE <<>>

\* C9: a send that changes the state runs, in this order and once each, the
\* transition's action, the old state's exit hook, the assignment, the new
\* state's entry hook and one notification per subscriber with the new state.
C9_TransitionOrder ==
  (CallIs("send") /\ \E k \in 1..Len(log) : log[k].k = "assign") =>
    LET i == log[2].arg[1]
        from == log[2].from
        to == getState(i)
        t == On(inst[i].id, from, log[2].s)
    IN /\ t.defined /\ to = t.target /\ to # from
       /\ EngineSteps =
            Optional(t.action, <<"action", log[2].s, <<i>>>>)
            \o Optional(HasExit(inst[i].id, from), <<"exit", from, <<i>>>>)
            \o <<(<<"assign", to, <<i>>>>)>>
            \o Optional(HasEntry(inst[i].id, to), <<"entry", to, <<i>>>>)
            \o [k \in 1..Len(inst[i].listeners) |-> <<"notify", to, <<inst[i].listeners[k]>>>>]

\* C9 witness: a send ran an action, an exit hook and an entry hook and
\* notified two subscribers.
C9_Witness ==
  /\ CallIs("send")
  /\ \A kind \in {"action", "exit", "assign", "entry"} : \E k \in 1..Len(log) : log[k].k = kind
  /\ Cardinality({k \in 1..Len(log) : log[k].k = "notify"}) = 2

\* C10: a send that matches a record transition (without a cond) whose target
\* is the current state runs the action once and no exit hook, entry hook or
\* notification, and leaves the state unchanged.
C10_SelfTransition ==
  CallIs("send") =>
    LET i == log[2].arg[1]
        from == log[2].from
        t == On(inst[i].id, from, log[2].s)
    IN (t.defined /\ ~t.bare /\ ~t.cond /\ t.target = from) =>
         /\ getState(i) = from
         /\ EngineSteps = Optional(t.action, <<"action", log[2].s, <<i>>>>)

\* C10 witness: the select tool, with a subscriber, handled a POINTER_DOWN in
\* `active` that hit a shape, and its drag context is set.
C10_Witness ==
  /\ CallIs("send")
  /\ \E i \in Selects :
       /\ inst[i].listeners # <<>>
       /\ \E k \in Actions(log, i, "POINTER_DOWN") : log[k].from = "active"
       /\ ~IsNull(inst[i].context.draggedShapeId)

----------------------------------------------------------------------------
\* Properties of the engine's lifecycle

CallOnIs(name, i) == log # <<>> /\ log[1] = Effect("call", name, Null, <<i>>)
Warnings == {k \in 1..Len(log) : log[k].k = "warn"}
Notifications == SelectSeq(log, LAMBDA e : e.k = "notify")
\* nothing outside the log changes
Untouched == UNCHANGED <<inst, shapes, selectedShapeIds, currentTool, cursor>>
\* the step is a call (the clock's steps leave the log of the last call alone)
Called == now' = now
\* the step is a send to machine i
SendTo(i) == Called /\ CallIs("send")' /\ log'[2].arg = <<i>>

\* C11: a send to a started machine whose current state has no transition on
\* the event type, or whose transition has a cond that returns false, changes
\* nothing: no action, exit hook, entry hook or notification runs, and the
\* state, the contexts, the store and the cursor are as before.
C11_RefusedSendChangesNothing ==
  [][\A i \in Instances :
       (SendTo(i) /\ inst[i].isStarted) =>
         LET from == inst[i].currentState
             t == On(inst[i].id, from, log'[2].s)
             refused ==
               /\ t.defined /\ t.cond
               /\ \E c \in 1..Len(log') :
                    /\ log'[c].k = "cond"
                    /\ ~Cond(inst[i].id, inst[i].context, from, Val(log'[c].ev))
         IN (~t.defined \/ refused) => (Untouched /\ EngineSteps' = <<>>)]_vars

\* C11 witness: the rectangle tool, with a subscriber, got a KEY_DOWN other
\* than Escape in `drawing` and is still drawing.
C11_Witness ==
  /\ CallIs("send")
  /\ \E i \in Rectangles :
       /\ getState(i) = "drawing" /\ inst[i].listeners # <<>>
       /\ \E c \in 1..Len(log) : log[c].k = "cond" /\ Val(log[c].ev).key = "a"

\* C12: a send to a machine that is not started leaves the state (and
\* everything else) unchanged, runs no action and no hook, notifies no
\* subscriber and produces exactly one warning.
C12_UnstartedSendIsInert ==
  [][\A i \in Instances :
       (SendTo(i) /\ ~inst[i].isStarted) =>
         /\ Untouched
         /\ EngineSteps' = <<>>
         /\ Cardinality(Warnings') = 1]_vars

\* C12 witness: ACTIVATE was sent to a machine that was never started (it is
\* in its initial state) and has a subscriber; one warning was produced.
C12_Witness ==
  /\ CallIs("send") /\ log[2].s = "ACTIVATE" /\ Warnings # {}
  /\ \E i \in Instances :
       /\ log[2].arg = <<i>> /\ ~inst[i].isStarted
       /\ getState(i) = initial /\ inst[i].listeners # <<>>

\* the machine the last call was made on
CallInstance == IF CallIs("send") \/ CallIs("subscribe") THEN log[2].arg[1] ELSE log[1].arg[1]
NotifySteps(m, state) ==
  [k \in 1..Len(m.listeners) |-> <<"notify", state, <<m.listeners[k]>>>>]

\* C13: subscribe(listener) invokes the listener exactly once, at once, with
\* the current state, whether or not the machine is started; once the
\* unsubscribe function of a listener has been called (and the listener has
\* not been subscribed again), no send and no start invokes it.
C13_SubscribeNotifiesUnsubscribeSilences ==
  /\ CallIs("subscribe") =>
        Notifications = <<Effect("notify", getState(CallInstance), Null, <<log[2].arg[2]>>)>>
  /\ (CallIs("send") \/ \E i \in Instances : CallOnIs("start", i)) =>
        \A k \in 1..Len(log) :
          log[k].k = "notify" => handles[CallInstance][log[k].arg[1]] # "called"

\* C13 witness: a send notified a subscriber while the unsubscribe function
\* of the other listener had been called.
C13_Witness ==
  /\ CallIs("send")
  /\ Len(Notifications) = 1
  /\ \E l \in ListenerIds : handles[CallInstance][l] = "called"

\* C14: stop() on a started machine runs the exit hook of the current state
\* once (and nothing else), removes every subscriber and leaves the machine
\* not started; stop() on a machine that is not started does nothing; a send
\* to a machine that is not started changes nothing and runs no action, hook
\* or notification.
C14_StopMakesInert ==
  [][\A i \in Instances :
       LET m == inst[i] IN
       /\ (Called /\ CallOnIs("stop", i)' /\ m.isStarted) =>
             /\ EngineSteps' =
                  Optional(HasExit(m.id, m.currentState), <<"exit", m.currentState, <<i>>>>)
             /\ inst'[i].listeners = <<>>
             /\ ~inst'[i].isStarted
             /\ inst'[i].currentState = m.currentState
       /\ (Called /\ CallOnIs("stop", i)' /\ ~m.isStarted) =>
             (Untouched /\ Len(log') = 1)
       /\ (SendTo(i) /\ ~m.isStarted) =>
             (inst' = inst /\ EngineSteps' = <<>> /\ Notifications' = <<>>)]_vars

\* C14 witness: stop() ran the exit hook of `active` on a machine that had a
\* subscriber, and the machine has no subscriber any more.
C14_Witness ==
  \E i \in Instances :
    /\ CallOnIs("stop", i)
    /\ EngineSteps = <<(<<"exit", "active", <<i>>>>)>>
    /\ inst[i].listeners = <<>> /\ ~inst[i].isStarted
    /\ \E l \in ListenerIds : handles[i][l] = "live"

----------------------------------------------------------------------------
\* Properties of the tool manager

\* the calls the manager made on tools and on the store during the last call,
\* in order: <<kind, event type or tool id, instance>>
IsToolCall(e) == e.k \in {"send", "setState"}
ToolCalls == [k \in 1..Len(SelectSeq(log, IsToolCall)) |->
                LET e == SelectSeq(log, IsToolCall)[k] IN <<e.k, e.s, e.arg>>]
\* the id the last setActiveTool call was given
Requested ==
  log[CHOOSE k \in 1..Len(log) :
        log[k].k = "setState" \/ (log[k].k = "warn" /\ log[k].arg = <<>>)].s
\* the step is setActiveTool(toolId)
Switched(toolId) == Called /\ CallIs("setActiveTool")' /\ Requested' = toolId
DeactivateSteps ==
  IF IsNull(activeTool) THEN <<>> ELSE <<(<<"send", "DEACTIVATE", <<Val(activeTool)>>>>)>>

\* C16: setActiveTool(id) with a registered id calls, in this order and once
\* each, deactivate() on the tool that was active (if any), activate() on the
\* tool registered under id and store.setState({currentTool: id}); afterwards
\* getActiveTool() is id and the store's currentTool is id.
C16_SwitchOrder ==
  [][\A toolId \in DOMAIN tools :
       Switched(toolId) =>
         /\ ToolCalls' =
              DeactivateSteps
              \o <<(<<"send", "ACTIVATE", <<tools[toolId]>>>>), (<<"setState", toolId, <<>>>>)>>
         /\ getActiveTool' = Some(toolId)
         /\ currentTool' = toolId]_vars

\* C16 witness: setActiveTool deactivated the rectangle tool, activated the
\* select tool and told the store.
C16_Witness ==
  /\ CallIs("setActiveTool")
  /\ \E i \in Selects, j \in Rectangles :
       /\ ToolCalls = <<(<<"send", "DEACTIVATE", <<j>>>>), (<<"send", "ACTIVATE", <<i>>>>),
                        (<<"setState", "select", <<>>>>)>>
       /\ getState(j) = "idle" /\ getState(i) = "active"

\* C17: setActiveTool(id) with an unregistered id emits one warning, leaves
\* getActiveTool() and the store's currentTool as they were, sends DEACTIVATE
\* to the tool that was active and does not activate it again.
C17_UnknownIdDeactivates ==
  [][\A toolId \in RequestedIds \ DOMAIN tools :
       Switched(toolId) =>
         /\ Cardinality(Warnings') = 1
         /\ UNCHANGED <<activeToolId, currentTool>>
         /\ ToolCalls' = DeactivateSteps]_vars

\* C17 witness: an unknown id was requested while the rectangle tool was
\* active; the tool is idle and still the manager's active tool.
C17_Witness ==
  /\ CallIs("setActiveTool") /\ Warnings # {}
  /\ \E j \in Rectangles :
       /\ activeTool = Some(j) /\ getActiveTool = Some("rectangle")
       /\ getState(j) = "idle"
       /\ \E k \in Sends(log, j, "DEACTIVATE") : log[k].from = "active"

\* C18 as stated: setActiveTool(id) with an unregistered id changes neither
\* the manager's active id, nor the state or context of any tool, nor the
\* store.
C18_UnknownIdIsNoOp ==
  [][\A toolId \in RequestedIds \ DOMAIN tools :
       Switched(toolId) =>
         UNCHANGED <<activeToolId, inst, shapes, selectedShapeIds, currentTool>>]_vars

\* C18 amended: setActiveTool(id) with an unregistered id leaves the manager's
\* active id, the registry, the store and every tool other than the active
\* one as they were; the active tool gets DEACTIVATE: if it was in `active` it
\* is idle with a null context afterwards, otherwise it is unchanged.
C18_UnknownIdOnlyDeactivates ==
  [][\A toolId \in RequestedIds \ DOMAIN tools :
       Switched(toolId) =>
         /\ UNCHANGED <<activeToolId, activeTool, tools, shapes, selectedShapeIds, currentTool>>
         /\ StoreCalls' = {}
         /\ \A i \in Instances :
              IF activeTool = Some(i) /\ inst[i].currentState = "active"
              THEN inst'[i] = [inst[i] EXCEPT !.currentState = "idle",
                                              !.context = NewMachine(inst[i].id).context]
              ELSE inst'[i] = inst[i]]_vars

\* C18 witness: an unknown id was requested while the select tool was active
\* with a shape selected; the select tool is idle.
C18_Witness ==
  /\ CallIs("setActiveTool") /\ Warnings # {}
  /\ selectedShapeIds # {}
  /\ \E i \in Selects :
       /\ activeTool = Some(i) /\ getState(i) = "idle"
       /\ \E k \in Sends(log, i, "DEACTIVATE") : log[k].from = "active"

\* the event type each dispatch method sends
EventOf ==
  [name \in {"handlePointerDown", "handlePointerMove", "handlePointerUp",
             "handleKeyDown", "handleKeyUp"} |->
     CASE name = "handlePointerDown" -> "POINTER_DOWN"
       [] name = "handlePointerMove" -> "POINTER_MOVE"
       [] name = "handlePointerUp" -> "POINTER_UP"
       [] name = "handleKeyDown" -> "KEY_DOWN"
       [] OTHER -> "KEY_UP"]

\* C19: while the manager has no active tool (no setActiveTool has succeeded)
\* a dispatch call changes nothing and reaches no tool; once it has one, each
\* dispatch call sends exactly one event, of the matching type, to the active
\* tool and nothing to any other tool.
C19_DispatchToActiveOnly ==
  [][\A name \in DOMAIN EventOf :
       (Called /\ CallIs(name)') =>
         IF IsNull(activeTool)
         THEN Untouched /\ Len(log') = 1
         ELSE ToolCalls' = <<(<<"send", EventOf[name], <<Val(activeTool)>>>>)>>]_vars

\* C19 witness: a POINTER_DOWN reached the select tool, the manager's active
\* tool, and not the rectangle tool, which is not idle.
C19_Witness ==
  /\ CallIs("handlePointerDown")
  /\ \E i \in Selects, j \in Rectangles :
       /\ activeTool = Some(i) /\ getState(j) # "idle"
       /\ ToolCalls = <<(<<"send", "POINTER_DOWN", <<i>>>>)>>

\* C20: registerTool with an id that is already registered overwrites the
\* entry: getTools() then holds one tool per id and, for that id, the tool
\* just registered; nothing else changes the registry, and setActiveTool(id)
\* activates the tool the registry holds for id and no other.
C20_ReregistrationOverwrites ==
  [][/\ \A i \in Instances :
          (Called /\ CallIs("registerTool")' /\ log'[2].arg = <<i>>) =>
            /\ {j \in getTools' : inst[j].id = inst[i].id} = {i}
            /\ Cardinality(getTools') = Cardinality({inst[j].id : j \in getTools'})
     /\ (tools' # tools) => (Called /\ CallIs("registerTool")')
     /\ \A toolId \in DOMAIN tools :
          Switched(toolId) =>
            \A j \in Instances :
              (Sends(log', j, "ACTIVATE") # {}) <=> (j = tools[toolId])]_vars

\* C20 witness: setActiveTool activated the tool registered later under an id
\* and deactivated the tool registered earlier under it, which the manager
\* had activated before.
C20_Witness ==
  /\ CallIs("setActiveTool")
  /\ \E i, j \in Instances :
       /\ j < i /\ inst[j].id = inst[i].id
       /\ getTools = {i} /\ activeTool = Some(i)
       /\ ToolCalls = <<(<<"send", "DEACTIVATE", <<j>>>>), (<<"send", "ACTIVATE", <<i>>>>),
                        (<<"setState", inst[i].id, <<>>>>)>>

----------------------------------------------------------------------------
\* Properties of the tools

\* the store calls of the last call, in order: <<method, shape id, numbers>>
IsStoreCall(e) == e.k \in StoreKinds
StoreCallSeq == [k \in 1..Len(SelectSeq(log, IsStoreCall)) |->
                   LET e == SelectSeq(log, IsStoreCall)[k] IN <<e.k, e.id, e.arg>>]
\* the event passed to the action the last send ran (if it ran one)
ActionEvents == {Val(log[k].ev) : k \in {c \in 1..Len(log) : log[c].k = "action"}}

\* C21: a tool built by createTool reports isActive() exactly when its state
\* is not `idle` (so it does in `drawing` and in `dragging`), its machine is
\* started, and right after its creation it is in the initial state.
C21_ActiveMeansNotIdle ==
  /\ \A i \in Instances :
       /\ isActive(i) <=> getState(i) \in {"active", "drawing", "dragging"}
       /\ getState(i) \in {"idle", "active", "drawing", "dragging"}
       /\ inst[i].isStarted
  /\ (CallIs("createSelectTool") \/ CallIs("createRectangleTool")) =>
       getState(Len(inst)) = initial

\* C21 witness: a tool in `dragging` reports isActive().
C21_Witness == \E i \in Selects : getState(i) = "dragging" /\ isActive(i)

\* C22: a POINTER_DOWN at p the rectangle tool receives in `active` calls
\* addShape exactly once, with a rectangle at (p.x, p.y) of width 0 and height
\* 0, and moves the tool to `drawing`; a POINTER_DOWN received in `idle` or
\* `drawing` adds no shape and leaves the state as it was.
C22_PointerDownAddsShape ==
  \A i \in Rectangles : \A k \in Sends(log, i, "POINTER_DOWN") :
    IF log[k].from = "active"
    THEN /\ getState(i) = "drawing"
         /\ \E ev \in ActionEvents :
              /\ Len(StoreCallSeq) = 1
              /\ StoreCallSeq[1][1] = "addShape"
              /\ StoreCallSeq[1][3] = <<Val(ev.point).x, Val(ev.point).y, 0, 0>>
    ELSE getState(i) = log[k].from /\ StoreCallSeq = <<>>

\* C22 witness: a POINTER_DOWN at (7, 2) in `active` added a shape there.
C22_Witness ==
  /\ CallIs("send")
  /\ \E i \in Rectangles :
       /\ \E k \in Sends(log, i, "POINTER_DOWN") : log[k].from = "active"
       /\ getState(i) = "drawing"
       /\ \E id \in DOMAIN shapes :
            /\ shapes[id] = [x |-> 7, y |-> 2, width |-> 0, height |-> 0]
            /\ StoreCallSeq = <<(<<"addShape", Some(id), <<7, 2, 0, 0>>>>)>>

\* the edges of the rectangle tool: <<from, event type, to>>
RectangleEdges ==
  {<<"idle", "ACTIVATE", "active">>, <<"active", "DEACTIVATE", "idle">>,
   <<"active", "POINTER_DOWN", "drawing">>, <<"drawing", "POINTER_UP", "active">>,
   <<"drawing", "KEY_DOWN", "active">>}

\* C23: every send to the rectangle tool changes the state along one of the
\* edges idle -ACTIVATE-> active, active -DEACTIVATE-> idle,
\* active -POINTER_DOWN-> drawing, drawing -POINTER_UP-> active,
\* drawing -KEY_DOWN(Escape)-> active, and along that edge whenever the pair
\* (state, event) has one; every other pair leaves the state unchanged.
C23_RectangleEdges ==
  CallIs("send") =>
    \A i \in Rectangles :
      log[2].arg = <<i>> =>
        LET from == log[2].from
            type == log[2].s
            to == getState(i)
            escape == \E c \in 1..Len(log) : log[c].k = "cond" /\ Val(log[c].ev).key = "Escape"
            edge == \E e \in RectangleEdges :
                      e[1] = from /\ e[2] = type /\ (type = "KEY_DOWN" => escape)
        IN IF edge THEN <<from, type, to>> \in RectangleEdges ELSE to = from

\* C23 witness: Escape took the rectangle tool from `drawing` to `active`.
C23_Witness ==
  /\ CallIs("send")
  /\ \E i \in Rectangles :
       /\ log[2] = SendEffect(i, KeyEvent("KEY_DOWN", "Escape"), "drawing")
       /\ getState(i) = "active"

\* C24: the id a POINTER_DOWN allocates for its rectangle differs from every
\* id allocated before, also when the clock has not advanced since: no
\* addShape is given the id of a shape an earlier POINTER_DOWN added.
C24_FreshShapeIds ==
  [][Called =>
       \A k \in 1..Len(log') :
         log'[k].k = "addShape" => Val(log'[k].id) \notin DOMAIN shapes]_vars

\* the step is a POINTER_DOWN the select tool i handles in `active`
SelectDown(i) ==
  /\ SendTo(i) /\ log'[2].s = "POINTER_DOWN"
  /\ inst[i].isStarted /\ inst[i].currentState = "active"
ClearCalls == {k \in 1..Len(StoreCallSeq) : StoreCallSeq[k][1] = "clearSelection"}

\* C25: a POINTER_DOWN without the shift modifier that the select tool
\* handles in `active` and that hits a shape outside the selection makes the
\* store receive clearSelection() and then selectShape(shape id), once each
\* and nothing else, and the tool stays in `active`.
C25_ClickSelectsAlone ==
  [][\A i \in Selects :
       SelectDown(i) =>
         \A ev \in ActionEvents' :
           (~ev.shiftKey /\ ~IsNull(ev.hit) /\ Val(ev.hit) \notin selectedShapeIds) =>
             /\ StoreCallSeq' = <<(<<"clearSelection", Null, <<>>>>),
                                  (<<"selectShape", ev.hit, <<>>>>)>>
             /\ inst'[i].currentState = "active"]_vars

\* C25 witness: with shape 2 selected, a click on shape 1 left shape 1 alone
\* in the selection.
C25_Witness ==
  /\ CallIs("send")
  /\ StoreCallSeq = <<(<<"clearSelection", Null, <<>>>>),
                      (<<"selectShape", Some(ShapeK(1)), <<>>>>)>>
  /\ selectedShapeIds = {ShapeK(1)}
  /\ \E i \in Selects : getState(i) = "active"

\* C26: on a POINTER_DOWN the select tool handles in `active`,
\* clearSelection() is called (once) exactly when the shift modifier is not
\* held and either no shape is hit or the hit shape is not selected; with
\* the modifier held it is not called, and a hit shape that is not selected
\* yet is added with selectShape.
C26_ClearUnlessShift ==
  [][\A i \in Selects :
       SelectDown(i) =>
         \A ev \in ActionEvents' :
           LET unselected == ~IsNull(ev.hit) /\ Val(ev.hit) \notin selectedShapeIds
           IN /\ Cardinality(ClearCalls') =
                   (IF ~ev.shiftKey /\ (IsNull(ev.hit) \/ unselected) THEN 1 ELSE 0)
              /\ (ev.shiftKey /\ unselected) =>
                   StoreCallSeq' = <<(<<"selectShape", ev.hit, <<>>>>)>>]_vars

\* C26 witness: with shape 1 selected, a shift-click on shape 2 added it to
\* the selection without clearing.
C26_Witness ==
  /\ CallIs("send")
  /\ StoreCallSeq = <<(<<"selectShape", Some(ShapeK(2)), <<>>>>)>>
  /\ selectedShapeIds = {ShapeK(1), ShapeK(2)}
  /\ \E ev \in ActionEvents : ev.shiftKey

\* C27: when the last POINTER_DOWN the select tool handled hit no shape, a
\* POINTER_MOVE it receives in `active` leaves it in `active` and causes no
\* updateShape call.
C27_NoDragWithoutHit ==
  \A i \in Selects : \A k \in Sends(log, i, "POINTER_MOVE") :
    (log[k].from = "active" /\ ~IsNull(gesture[i]) /\ Val(gesture[i]).phase = "miss") =>
      /\ getState(i) = "active"
      /\ \A c \in 1..Len(StoreCallSeq) : StoreCallSeq[c][1] # "updateShape"

C30_NoErrorRaised == \A k \in 1..Len(log) : log[k].k # "throw"


----------------------------------------------------------------------------
\* Properties of the helpers

\* the bounds a getRectBounds call returned: <<x, y, width, height>>
BoundsOf(e) == SubSeq(e.arg, 5, 8)

\* C31: for all points a and b of the grid, negative coordinates included,
\* getRectBounds(a, b) equals getRectBounds(b, a) and is the rectangle with
\* x = min(a.x, b.x), y = min(a.y, b.y), width = |b.x - a.x| and
\* height = |b.y - a.y|; width and height are never negative.
C31_BoundsSymmetric ==
  CallIs("getRectBounds") =>
    LET ax == log[2].arg[1]  ay == log[2].arg[2]
        bx == log[2].arg[3]  by == log[2].arg[4]
        r == BoundsOf(log[2])
    IN /\ log[3].arg[1] = bx /\ log[3].arg[2] = by
       /\ log[3].arg[3] = ax /\ log[3].arg[4] = ay
       /\ BoundsOf(log[3]) = r
       /\ r[1] <= ax /\ r[1] <= bx /\ r[1] \in {ax, bx}
       /\ r[2] <= ay /\ r[2] <= by /\ r[2] \in {ay, by}
       /\ r[3] \in {bx - ax, ax - bx} /\ r[3] >= 0
       /\ r[4] \in {by - ay, ay - by} /\ r[4] >= 0

\* C31 witness: the bounds of (2, -1) and (-2, 1), whose end lies left of the
\* start, are x = -2, y = -1, width 4, height 2.
C31_Witness ==
  /\ CallIs("getRectBounds")
  /\ log[2].arg = <<2, -1, -2, 1, -2, -1, 4, 2>>
  /\ log[3].arg = <<-2, 1, 2, -1, -2, -1, 4, 2>>


\* the calls the wrapped tool's pointer methods received in the last call
HandleCalls == {k \in 1..Len(log) : log[k].k = "handle"}
MaxMultiple == 10
\* c is a multiple of g, and no multiple of g is nearer to n
IsNearestMultiple(c, n, g) ==
  /\ \E k \in -MaxMultiple..MaxMultiple : c = k * g
  /\ \A k \in -MaxMultiple..MaxMultiple : Abs(c - n) <= Abs(k * g - n)

\* C32: a pointer method of withSnapping({gridSize: g, enabled})(tool) called
\* with point p and a raw event makes exactly one call of the same method of
\* the wrapped tool, with the same raw event; with enabled = TRUE its point
\* has each coordinate of p replaced by the nearest multiple of g, with
\* enabled = FALSE its point is p.
C32_SnappingForwards ==
  CallIs("withSnapping") =>
    LET c == log[2]
        g == c.arg[3]
    IN /\ Cardinality(HandleCalls) = 1
       /\ \A k \in HandleCalls :
            /\ log[k].s = c.s
            /\ log[k].ev = c.ev
            /\ Len(log[k].arg) = 2
            /\ IF c.from = "enabled"
               THEN /\ IsNearestMultiple(log[k].arg[1], c.arg[1], g)
                    /\ IsNearestMultiple(log[k].arg[2], c.arg[2], g)
               ELSE log[k].arg = <<c.arg[1], c.arg[2]>>


----------------------------------------------------------------------------
\* Further properties of the manager, the tools and the engine

\* C33: whenever the manager has an active tool, it is the instance that
\* getTools() holds under the id getActiveTool() returns, so input is never
\* dispatched to an instance that was overwritten in the registry.
C33_ActiveToolRegistered ==
  ~IsNull(activeTool) =>
    /\ ~IsNull(getActiveTool)
    /\ {j \in getTools : inst[j].id = Val(getActiveTool)} = {Val(activeTool)}


\* C34: the select tool enters `dragging` only while the pointer is held
\* down: a POINTER_MOVE it receives in `active` right after the POINTER_UP
\* that followed a POINTER_DOWN on a shape leaves it in `active`.
C34_DragOnlyWhileHeld ==
  [][\A i \in Selects :
       (/\ SendTo(i) /\ log'[2].s = "POINTER_MOVE"
        /\ inst[i].currentState = "active"
        /\ ~IsNull(gesture[i]) /\ Val(gesture[i]).phase = "up") =>
         inst'[i].currentState = "active"]_vars


InputTypes == {"POINTER_DOWN", "POINTER_MOVE", "POINTER_UP", "KEY_DOWN", "KEY_UP"}

\* C35: a pointer or keyboard event the select tool or the rectangle tool
\* receives in `idle` makes no addShape, updateShape, removeShape,
\* selectShape or clearSelection call and leaves the tool in `idle`.
C35_IdleLeavesStoreAlone ==
  CallIs("send") =>
    \A i \in Selects \cup Rectangles :
      (log[2].arg = <<i>> /\ log[2].from = "idle" /\ log[2].s \in InputTypes) =>
        /\ StoreCalls = {}
        /\ getState(i) = "idle"

\* C35 witness: a select tool that was active before and is idle again got
\* a POINTER_DOWN while shape 2 is selected; the selection stays.
C35_Witness ==
  /\ CallIs("send")
  /\ \E i \in Selects :
       log[2].s = "POINTER_DOWN" /\ log[2].arg = <<i>> /\ log[2].from = "idle"
  /\ cursor = "default"
  /\ selectedShapeIds = {ShapeK(2)}
  /\ StoreCalls = {}


\* C36: a listener whose unsubscribe function has been called is not invoked
\* again, also when another listener calls it in the middle of a
\* notification round: no call notifies a listener after its unsubscribe
\* function was called earlier in that call.
C36_RemovedListenerSkipped ==
  \A i \in Instances, l \in ListenerIds :
    \A k \in 1..Len(log) :
      (log[k].k = "notify" /\ log[k].arg = <<l>>) =>
        ~\E u \in 1..(k - 1) : log[u] = Effect("unsubscribe", "", Null, <<i, l>>)


\* the last call was a stop() of machine i that took effect
Stopped(i) ==
  CallOnIs("stop", i) /\ \E k \in 1..Len(log) : log[k] = Effect("stopped", "", Null, <<i>>)

C38_StartIdempotent ==
  [][\A i \in Instances :
       (Called /\ CallOnIs("start", i)' /\ inst[i].isStarted) =>
         /\ EngineSteps' = <<>>
         /\ Notifications' = <<>>
         /\ UNCHANGED <<inst, shapes, selectedShapeIds, cursor>>]_vars

\* C38 witness: start() was called on a started machine that is in `active`
\* and has a subscriber; neither the entry hook of `active` nor the
\* subscriber was called.
C38_Witness ==
  \E i \in Instances :
    /\ CallOnIs("start", i)
    /\ Len(log) = 1
    /\ inst[i].isStarted /\ getState(i) = "active"
    /\ inst[i].listeners # <<>>


\* the two managers agree: the same active id, and each tool of the manager
\* in the state of the hybrid manager's tool of the same id
SameActiveId ==
  IF IsNull(getActiveTool) THEN HybridGetActiveTool = ""
  ELSE HybridGetActiveTool = Val(getActiveTool)
Equivalent ==
  /\ SameActiveId
  /\ \A id \in ToolIds : getState(tools[id]) = getState(hybrid.tools[id])

\* C39: with the select and the rectangle tool registered and select
\* activated first, ToolManagerHybrid and createToolManager given the same
\* setActiveTool calls with registered ids and the same pointer and keyboard
\* events have the same active id and the same state in corresponding tools
\* after every call; a setActiveTool call with an id that is not registered
\* leaves the hybrid manager's current tool and its state as they were,
\* while the manager's current tool, if it was in `active`, is idle.
C39_HybridEquivalence ==
  [][/\ ~hybrid'.strayed => Equivalent'
     /\ (Called /\ hybrid'.strayed) =>
          /\ hybrid'.currentTool = hybrid.currentTool
          /\ inst'[HybridIndex].currentState = inst[HybridIndex].currentState
          /\ inst[ActiveIndex].currentState = "active" =>
               inst'[ActiveIndex].currentState = "idle"]_vars

\* C39 witness: after a switch to the rectangle tool and a POINTER_DOWN, both
\* rectangle tools are drawing and both select tools are idle.
C39_Witness ==
  /\ CallIs("handlePointerDown")
  /\ ~hybrid.strayed
  /\ getActiveTool = Some("rectangle") /\ HybridGetActiveTool = "rectangle"
  /\ getState(tools["rectangle"]) = "drawing"
  /\ getState(hybrid.tools["rectangle"]) = "drawing"
  /\ getState(tools["select"]) = "idle" /\ getState(hybrid.tools["select"]) = "idle"

====
